---- MODULE Spec2Model ----
(***************************************************************************)
(* OpenAspen: the query-routing and execution pipeline of                  *)
(* openaspen/core (TreeNode, Leaf, Branch, OpenAspenTree), together with   *)
(* the parts of GroupRAGStore and LLMRouter the pipeline calls.            *)
(*                                                                         *)
(* Node objects are numbered in the order they are constructed: Branch     *)
(* objects 1..MaxBranches, Leaf objects 101..100+MaxLeaves.  A coroutine   *)
(* of Tree.execute advances from one await to the next; the answers of the *)
(* vector store, of the chat model and of the leaf callables are inputs.   *)
(* Structural mutation happens only while no query is in flight (spec.md   *)
(* section 5 leaves concurrent mutation to the caller's synchronisation).  *)
(***************************************************************************)
EXTENDS Integers, Sequences, FiniteSets, Bags, TLC

\* ------------------------------------------------------------------ bounds
MaxBranches == 3
MaxLeaves == 2
MaxDocs == 3
MaxHistory == 1
\* the leaves of the wide branch of SpecWide
WideLeaves == 4
\* the index entries and the history records of SpecIndex
IndexDocs == 5
IndexHistory == 2
\* the entries of all children lists together in SpecNodes
MaxLinks == 3
\* the records of the history and the largest limit asked for in SpecHistory
MaxRecords == 4
MaxLimit == 5

\* ------------------------------------------------------- program constants
TreeTopK == 5
BranchTopK == 3

\* ------------------------------------------------------------ input domains
\* the caller names the i-th Branch and the j-th Leaf it constructs
\* (the third Branch gets the empty name, which "if branch_name" takes for false)
BranchName(i) ==
    IF i = 1 THEN "crypto" ELSE IF i = 2 THEN "social" ELSE IF i = 3 THEN ""
    ELSE "branch" \o ToString(i)
LeafName(j) == IF j = 101 THEN "price" ELSE IF j = 102 THEN "post" ELSE "leaf" \o ToString(j)
\* the description, llm_provider and system_prompt the caller gives the i-th
\* Branch; "" and None are the defaults of Branch.__init__
BranchDescription(i) == IF i = 1 THEN "market data" ELSE ""
BranchProvider(i) == IF i = 2 THEN "anthropic" ELSE "None"
BranchPrompt(i) == IF i = 2 THEN "be brief" ELSE ""
\* the name the tree was constructed with
TreeName == "forest"
Queries == {"q"}
Scores == {3, 5, 9}
ToolValues == {"v"}
ToolErrors == {"boom"}
DecisionInputs == {"llm_input"}

BranchIds == 1..MaxBranches
LeafIds == 101..(100 + MaxLeaves)
Nodes == BranchIds \cup LeafIds
BranchNames == {BranchName(i) : i \in BranchIds}
LeafNames == {LeafName(j) : j \in LeafIds}
NoNode == 0
NoName == "<unset>"
None == "None"

VARIABLES
    name,                \* TreeNode.name of every constructed node
    parent,              \* TreeNode.parent
    children,            \* TreeNode.children
    tool_func,           \* Leaf.tool_func is not None
    description,         \* Branch.description
    llm_provider,        \* Branch.llm_provider
    system_prompt,       \* Branch.system_prompt
    branches,            \* OpenAspenTree.branches
    shared_rag_db,       \* OpenAspenTree.shared_rag_db is not None
    documents,           \* GroupRAGStore._documents (a bag of metadata)
    vectorstore,         \* GroupRAGStore._vectorstore is not None
    llm_cache,           \* LLMRouter._llm_cache is not empty
    execution_history,   \* OpenAspenTree._execution_history
    pc,                  \* where the coroutine of Tree.execute stands
    query,               \* its query argument
    best_branch,         \* the local best_branch of Tree.execute
    results,             \* the local results of _find_best_branch
    stack,               \* the Branch.execute frames in progress
    relevant_leaves,     \* the shortlist of the innermost Branch.execute
    cur,                 \* the Leaf.execute call in progress
    exc,                 \* the exception best_branch.execute raised, if any
    ret,                 \* what Tree.execute returned
    calls,               \* the calls this Tree.execute made so far, each with
                         \* what it was answered and what it returned
    last,                \* the latest call of index_tree, to_dict/from_dict,
                         \* get_execution_history, add_child or remove_child,
                         \* with how it ended
    suspended            \* the locals of a second Tree.execute coroutine on
                         \* the same tree, while the first one runs

attributes == <<description, llm_provider, system_prompt>>
structure == <<name, parent, children, tool_func, attributes, branches>>
store == <<documents, vectorstore>>
config == <<shared_rag_db, llm_cache>>
coroutine == <<pc, query, best_branch, results, stack, relevant_leaves, cur, exc, ret, calls>>
vars == <<structure, store, config, execution_history, coroutine, last, suspended>>

\* -------------------------------------------------------------- TreeNode
Created(n) == name[n] # NoName
\* isinstance(n, Branch), isinstance(n, Leaf): Leaf objects are numbered from 101
IsBranch(n) == n \in 1..100
IsLeaf(n) == n > 100

NumBranches == Cardinality({b \in BranchIds : Created(b)})
NumLeaves == Cardinality({l \in LeafIds : Created(l)})

\* get_path: from self up the parent references, each name inserted in front
RECURSIVE WalkPath(_, _)
WalkPath(current, path) ==
    IF current = NoNode THEN path
    ELSE WalkPath(parent[current], <<name[current]>> \o path)
get_path(n) == WalkPath(n, <<>>)

\* get_depth: from self.parent up the parent references, counting
RECURSIVE WalkDepth(_, _)
WalkDepth(current, depth) ==
    IF current = NoNode THEN depth
    ELSE WalkDepth(parent[current], depth + 1)

\* mutant: the walk starts at self
get_depth_FromSelf(n) == WalkDepth(n, 0)

get_depth(n) == WalkDepth(parent[n], 0)

RECURSIVE Join(_)
Join(path) ==
    IF Len(path) = 1 THEN path[1]
    ELSE path[1] \o "/" \o Join(Tail(path))

get_leaves(b) == SelectSeq(children[b], IsLeaf)
get_branches(b) == SelectSeq(children[b], IsBranch)

NoCall == [leaf |-> NoNode, input |-> None, mode |-> None]
NoRet == [success |-> FALSE, error |-> "<no return>"]
NoExc == "<no exception>"
NoOp == [call |-> None]
\* the locals of a coroutine that runs no query
NoLocals ==
    [pc |-> "idle", query |-> None, best_branch |-> NoNode, results |-> <<>>, stack |-> <<>>,
     relevant_leaves |-> <<>>, cur |-> NoCall, exc |-> NoExc, ret |-> NoRet, calls |-> <<>>]

Init ==
    /\ name = [n \in Nodes |-> NoName]
    /\ parent = [n \in Nodes |-> NoNode]
    /\ children = [n \in Nodes |-> <<>>]
    /\ tool_func = [l \in LeafIds |-> FALSE]
    /\ description = [b \in BranchIds |-> ""]
    /\ llm_provider = [b \in BranchIds |-> None]
    /\ system_prompt = [b \in BranchIds |-> ""]
    /\ branches = <<>>
    /\ shared_rag_db \in BOOLEAN
    /\ llm_cache \in BOOLEAN
    /\ documents = EmptyBag
    /\ vectorstore = FALSE
    /\ execution_history = <<>>
    /\ pc = "idle"
    /\ query = None
    /\ best_branch = NoNode
    /\ results = <<>>
    /\ stack = <<>>
    /\ relevant_leaves = <<>>
    /\ cur = NoCall
    /\ exc = NoExc
    /\ ret = NoRet
    /\ calls = <<>>
    /\ last = NoOp
    /\ suspended = NoLocals

\* ------------------------------------------------------- building the tree
Idle == pc = "idle"

\* TreeNode.add_child: child.parent = self; self.children.append(child)
AddChild(p, c) ==
    /\ parent' = [parent EXCEPT ![c] = p]
    /\ children' = [children EXCEPT ![p] = Append(@, c)]

\* Branch.__init__(name, description, llm_provider, system_prompt)
NewBranch(b, nm, desc, provider, prompt) ==
    /\ name' = [name EXCEPT ![b] = nm]
    /\ description' = [description EXCEPT ![b] = desc]
    /\ llm_provider' = [llm_provider EXCEPT ![b] = provider]
    /\ system_prompt' = [system_prompt EXCEPT ![b] = prompt]

\* tree.add_branch(name, description, llm_provider, system_prompt): a new
\* Branch appended to tree.branches
add_branch(nm, desc, provider, prompt) ==
    /\ Idle
    /\ NumBranches < MaxBranches
    /\ LET b == NumBranches + 1 IN
         /\ NewBranch(b, nm, desc, provider, prompt)
         /\ branches' = Append(branches, b)
    /\ last' = NoOp
    /\ UNCHANGED <<parent, children, tool_func, store, config, suspended, execution_history, coroutine>>

\* p.add_child(Branch(name, ...)): a new Branch nested under branch p
add_sub_branch(p, nm, desc, provider, prompt) ==
    /\ Idle
    /\ Created(p)
    /\ NumBranches < MaxBranches
    /\ LET b == NumBranches + 1 IN
         /\ NewBranch(b, nm, desc, provider, prompt)
         /\ AddChild(p, b)
    /\ last' = NoOp
    /\ UNCHANGED <<tool_func, branches, store, config, suspended, execution_history, coroutine>>

\* Leaf.__init__(name, tool_func=None): no argument is rejected; f tells
\* whether a callable was given
LeafInitAccepts(f) == TRUE

NewLeaf(l, nm, f) ==
    /\ LeafInitAccepts(f)
    /\ name' = [name EXCEPT ![l] = nm]
    /\ tool_func' = [tool_func EXCEPT ![l] = f]

\* p.add_leaf(name, tool_func): Leaf(...) then add_child
add_leaf(p, nm, f) ==
    /\ Idle
    /\ Created(p)
    /\ NumLeaves < MaxLeaves
    /\ LET l == 101 + NumLeaves IN
         /\ NewLeaf(l, nm, f)
         /\ AddChild(p, l)
    /\ last' = NoOp
    /\ UNCHANGED <<attributes, branches, store, config, suspended, execution_history, coroutine>>

\* ------------------------------------------------------------ GroupRAGStore
Metadata(leaf_name, branch_name) == [leaf_name |-> leaf_name, branch |-> branch_name]

NumDocs == BagCardinality(documents)

\* index_leaf: append the document; a store that is not initialised tries to
\* initialise itself from all documents so far (ok: whether that succeeds)
index_leaf(leaf_name, branch_name, ok) ==
    /\ documents' = documents (+) SetToBag({Metadata(leaf_name, branch_name)})
    /\ vectorstore' = IF vectorstore THEN TRUE ELSE ok

\* the documents index_branch(b) adds: b's leaves under b's name, then the
\* same for every sub-branch
RECURSIVE BranchDocs(_)
RECURSIVE BranchesDocs(_)
BranchDocs(b) ==
    LET leaves == get_leaves(b)
        RECURSIVE LeafDocs(_)
        LeafDocs(i) ==
            IF i > Len(leaves) THEN EmptyBag
            ELSE SetToBag({Metadata(name[leaves[i]], name[b])}) (+) LeafDocs(i + 1)
    IN LeafDocs(1) (+) BranchesDocs(get_branches(b))
BranchesDocs(bs) ==
    IF bs = <<>> THEN EmptyBag
    ELSE BranchDocs(Head(bs)) (+) BranchesDocs(Tail(bs))

\* tree.spawn_leaf(p, name, tool_func): add_leaf, then index_leaf under p.name;
\* without a store the second line raises and the leaf stays attached
spawn_leaf(p, nm, f, ok) ==
    /\ Idle
    /\ Created(p)
    /\ IsBranch(p)
    /\ NumLeaves < MaxLeaves
    /\ LET l == 101 + NumLeaves IN
         /\ NewLeaf(l, nm, f)
         /\ AddChild(p, l)
    /\ IF shared_rag_db
         THEN /\ NumDocs < MaxDocs
              /\ index_leaf(nm, name[p], ok)
         ELSE UNCHANGED store
    /\ last' = NoOp
    /\ UNCHANGED <<attributes, branches, config, suspended, execution_history, coroutine>>

Raised(e) == [raised |-> e]
IsRaised(r) == "raised" \in DOMAIN r

Completed(call) == [call |-> call, outcome |-> "completed"]
Failed(call, e) == [call |-> call, outcome |-> "raised", error |-> e]
NotInitialized == "Vector store not initialized"
NoStore(attr) == "'NoneType' object has no attribute '" \o attr \o "'"

\* tree.index_tree(): index_branch on every top-level branch.  Without
\* branches the loop does nothing; without a store the first iteration raises
\* AttributeError; index_branch raises on a store that is not initialised,
\* before it indexes anything
IndexTree(max) ==
    /\ Idle
    /\ IF branches = <<>>
         THEN /\ last' = Completed("index_tree")
              /\ UNCHANGED store
         ELSE IF ~shared_rag_db
         THEN /\ last' = Failed("index_tree", NoStore("index_branch"))
              /\ UNCHANGED store
         ELSE IF ~vectorstore
         THEN /\ last' = Failed("index_tree", NotInitialized)
              /\ UNCHANGED store
         ELSE /\ NumDocs + BagCardinality(BranchesDocs(branches)) <= max
              /\ documents' = documents (+) BranchesDocs(branches)
              /\ last' = Completed("index_tree")
              /\ UNCHANGED vectorstore
    /\ UNCHANGED <<structure, config, suspended, execution_history, coroutine>>

index_tree == IndexTree(MaxDocs)

\* tree.remove_branch(name): the first branch of that name leaves tree.branches
get_branch(nm) ==
    IF \E i \in 1..Len(branches) : name[branches[i]] = nm
    THEN branches[CHOOSE i \in 1..Len(branches) :
                    /\ name[branches[i]] = nm
                    /\ \A j \in 1..(i - 1) : name[branches[j]] # nm]
    ELSE NoNode

remove_branch(nm) ==
    /\ Idle
    /\ LET b == get_branch(nm) IN
         branches' = IF b # NoNode THEN SelectSeq(branches, LAMBDA x : x # b)
                     ELSE branches
    /\ last' = NoOp
    /\ UNCHANGED <<name, parent, children, tool_func, attributes, store, config, suspended,
                   execution_history, coroutine>>

clear_history ==
    /\ Idle
    /\ execution_history' = <<>>
    /\ last' = NoOp
    /\ UNCHANGED <<structure, store, config, suspended, coroutine>>

\* TreeNode.to_dict, with what Branch.to_dict and Leaf.to_dict add to it
RECURSIVE node_to_dict(_)
node_to_dict(n) ==
    LET base == [id |-> n, name |-> name[n],
                 type |-> IF IsBranch(n) THEN "Branch" ELSE "Leaf",
                 llm_provider |-> IF IsBranch(n) THEN llm_provider[n] ELSE None,
                 children |-> [i \in DOMAIN children[n] |-> node_to_dict(children[n][i])]]
    IN IF IsBranch(n)
       THEN base @@ [description |-> description[n], system_prompt |-> system_prompt[n],
                     temperature |-> "0.7", max_tokens |-> 2000]
       ELSE base @@ [description |-> "", is_async |-> FALSE]

\* tree.to_dict(): the branches, then the providers, then the store's
\* get_stats(), which a tree without a store does not have
to_dict ==
    IF ~shared_rag_db THEN Raised(NoStore("get_stats"))
    ELSE [name |-> TreeName,
          branches |-> [i \in DOMAIN branches |-> node_to_dict(branches[i])],
          llm_providers |-> llm_cache,
          rag_stats |-> IF vectorstore THEN [total_documents |-> NumDocs]
                        ELSE [error |-> NotInitialized]]

\* dict.get(key, default)
Get(d, key, default) == IF key \in DOMAIN d THEN d[key] ELSE default

\* from_dict, the add_branch call of its loop: the Branch it constructs
BranchFromDict(branch_data) ==
    [name |-> branch_data.name,
     description |-> Get(branch_data, "description", ""),
     llm_provider |-> Get(branch_data, "llm_provider", None),
     system_prompt |-> Get(branch_data, "system_prompt", ""),
     children |-> <<>>]

\* OpenAspenTree.from_dict(data, llm_configs): the tree it constructs
from_dict(data) ==
    [name |-> Get(data, "name", "OpenAspenTree"),
     branches |-> LET bs == Get(data, "branches", <<>>)
                  IN [i \in DOMAIN bs |-> BranchFromDict(bs[i])]]

\* OpenAspenTree.from_dict(tree.to_dict(), llm_configs)
round_trip ==
    /\ Idle
    /\ last' = IF IsRaised(to_dict) THEN Failed("to_dict", to_dict.raised)
               ELSE [call |-> "from_dict", outcome |-> "completed", tree |-> from_dict(to_dict)]
    /\ UNCHANGED <<structure, store, config, suspended, execution_history, coroutine>>

Build ==
    \/ LET i == NumBranches + 1
       IN add_branch(BranchName(i), BranchDescription(i), BranchProvider(i), BranchPrompt(i))
    \/ \E p \in BranchIds :
          LET i == NumBranches + 1
          IN add_sub_branch(p, BranchName(i), BranchDescription(i), BranchProvider(i),
                            BranchPrompt(i))
    \/ \E p \in BranchIds, f \in BOOLEAN : add_leaf(p, LeafName(101 + NumLeaves), f)
    \/ \E p \in BranchIds, f \in BOOLEAN, ok \in BOOLEAN :
          spawn_leaf(p, LeafName(101 + NumLeaves), f, ok)
    \/ index_tree
    \/ \E nm \in BranchNames : remove_branch(nm)
    \/ clear_history
    \/ round_trip

\* ----------------------------------------------- what the collaborators answer
\* the lists a search can return: at most k entries of the index, each once
RECURSIVE DocSeqs(_, _)
DocSeqs(bag, k) ==
    IF k = 0 THEN {<<>>}
    ELSE {<<>>} \cup
         UNION {{<<d>> \o t : t \in DocSeqs(bag (-) SetToBag({d}), k - 1)} : d \in BagToSet(bag)}

Scored(docs) ==
    {h \in [1..Len(docs) -> [doc : BagToSet(documents), score : Scores]] :
        \A i \in 1..Len(docs) : h[i].doc = docs[i]}

\* vectorstore.asimilarity_search_with_score(query, k): (document, score) pairs
SearchWithScoreAnswers(k) == UNION {Scored(docs) : docs \in DocSeqs(documents, k)}

\* vectorstore.asimilarity_search(query, k, filter={"branch": branch_name})
FilteredBag(branch_name) ==
    LET keep == {d \in BagToSet(documents) : d.branch = branch_name}
    IN [d \in keep |-> documents[d]]
SearchAnswers(k, branch_name) == DocSeqs(FilteredBag(branch_name), k)

\* A store that scores every document by its text: under the scores s (one per
\* leaf name) it returns the k best-scored entries, best first, or all entries
\* when it holds fewer; entries of equal score come in any order.
ScoreAssignments == [LeafNames -> Scores]
TopKAnswers(bag, s, k) ==
    LET n == IF BagCardinality(bag) < k THEN BagCardinality(bag) ELSE k
        Count(docs, d) == Cardinality({i \in 1..Len(docs) : docs[i] = d})
        Best(docs) ==
            /\ Len(docs) = n
            /\ \A i \in 1..(n - 1) : s[docs[i].leaf_name] >= s[docs[i + 1].leaf_name]
            /\ \A d \in BagToSet(bag) :
                  Count(docs, d) < CopiesIn(d, bag) =>
                      \A i \in 1..n : s[docs[i].leaf_name] >= s[d.leaf_name]
    IN {[i \in 1..n |-> [doc |-> docs[i], score |-> s[docs[i].leaf_name]]] :
           docs \in {ds \in DocSeqs(bag, k) : Best(ds)}}

\* llm.ainvoke: it raises, or answers text that is no JSON, or JSON that is no
\* object, or an object whose "tool" and "input" keys are present or missing
Absent == "<absent>"
LlmAnswers ==
    [kind : {"raise", "text", "json"}, tool : {Absent}, input : {Absent}]
    \cup [kind : {"object"}, tool : LeafNames \cup {"other", Absent},
          input : DecisionInputs \cup {Absent}]

\* the callable returns a value or raises
ToolOutcomes == [raises : {FALSE}, value : ToolValues] \cup [raises : {TRUE}, value : ToolErrors]

NoAnswer == [kind |-> None]
\* what rag_db.similarity_search did: it raised, or it returned these documents
SearchRaised == [kind |-> "raise"]
SearchReturned(docs) == [kind |-> "hits", docs |-> docs]
NoValue == [none |-> TRUE]

\* one call of the trace
Call(op, n, input, handles, shortlist, answer, returned) ==
    [op |-> op, node |-> n, input |-> input, handles |-> handles,
     shortlist |-> shortlist, answer |-> answer, returned |-> returned]
BranchExecuteCall(b, r) == Call("Branch.execute", b, query, FALSE, <<>>, NoAnswer, r)

\* ------------------------------------------------------------- the records
NoBranchFound(q) == [success |-> FALSE, error |-> "No suitable branch found", query |-> q]

\* mutant: the record of a branch without children reports success
NoChildren_Success(b) == [success |-> TRUE, error |-> "No children to execute", branch |-> name[b]]

\* Branch.execute, the last return statement
NoChildren(b) == [success |-> FALSE, error |-> "No children to execute", branch |-> name[b]]

FanOut(b, rs) == [success |-> TRUE, branch |-> name[b], results |-> rs]
NoToolFunction(l) == "Leaf '" \o name[l] \o "' has no tool function defined"
NoProviders == "No LLM providers configured"


\* mutant: Tree.execute without its except clause
TopLevelError_Reraise(e, q) == Raised(e)

\* Tree.execute, except Exception as e
TopLevelError(e, q) == [success |-> FALSE, error |-> e, query |-> q]


\* mutant: the failure record reports success
ToolNotFound_Success(t, b) ==
    [success |-> TRUE,
     error |-> "Tool " \o (IF t = Absent THEN None ELSE t) \o " not found",
     branch |-> name[b]]

\* _execute_with_llm, the else of "if selected_leaf"
ToolNotFound(t, b) ==
    [success |-> FALSE,
     error |-> "Tool " \o (IF t = Absent THEN None ELSE t) \o " not found",
     branch |-> name[b]]


\* mutant: Leaf.execute lets the callable's exception through
LeafFailure_Reraise(l, e) == Raised(e)

\* Leaf.execute, the two return statements
LeafSuccess(l, v) ==
    [success |-> TRUE, result |-> v, leaf |-> name[l], path |-> Join(get_path(l))]
LeafFailure(l, e) ==
    [success |-> FALSE, error |-> e, leaf |-> name[l], path |-> Join(get_path(l))]


\* mutant: Leaf.execute without the check for a missing callable
MissingToolFunc_Never(l) == FALSE

\* Leaf.execute, "if self.tool_func is None"
MissingToolFunc(l) == ~tool_func[l]


\* mutant: the except clause takes the last shortlisted leaf
FallbackLeaf_Last(shortlist) == shortlist[Len(shortlist)]

\* _execute_with_llm, the except clause: relevant_leaves[0]
FallbackLeaf(shortlist) == shortlist[1]


\* mutants: the empty-tree test and the single-branch test never succeed, and
\* the fallback takes the last branch
NoBranches_Never == FALSE
SingleBranch_Never == FALSE
FallbackBranch_Last == branches[Len(branches)]

\* _find_best_branch: "if not self.branches", "if len(self.branches) == 1",
\* and the last line, self.branches[0]
NoBranches == branches = <<>>
SingleBranch == Len(branches) = 1
FallbackBranch == branches[1]

Frame(b) == [node |-> b, results |-> <<>>]
Top == stack[Len(stack)]

\* ------------------------------------------------------------ Tree.execute
\* _find_best_branch on the (document, score) pairs the store returned
BranchScore(hits, nm) ==
    LET RECURSIVE Sum(_)
        Sum(i) == IF i > Len(hits) THEN 0
                  ELSE (IF hits[i].doc.branch = nm THEN hits[i].score ELSE 0) + Sum(i + 1)
    IN Sum(1)

FirstHit(hits, nm) == CHOOSE i \in 1..Len(hits) :
    /\ hits[i].doc.branch = nm
    /\ \A j \in 1..(i - 1) : hits[j].doc.branch # nm

\* the keys of branch_scores ("if branch_name" drops the empty name)
ScoredNames(hits) == {hits[i].doc.branch : i \in 1..Len(hits)} \ {""}

\* max(branch_scores.items(), key=score): the largest sum, the earliest
\* inserted key among equals
BestBranchName(hits) == CHOOSE nm \in ScoredNames(hits) :
    \A other \in ScoredNames(hits) \ {nm} :
        \/ BranchScore(hits, nm) > BranchScore(hits, other)
        \/ /\ BranchScore(hits, nm) = BranchScore(hits, other)
           /\ FirstHit(hits, nm) < FirstHit(hits, other)

\* every Branch.execute in progress, innermost first, is left by the exception
RECURSIVE Unwound(_, _)
Unwound(stk, e) ==
    IF stk = <<>> THEN <<>>
    ELSE <<BranchExecuteCall(stk[Len(stk)].node, Raised(e))>>
         \o Unwound(SubSeq(stk, 1, Len(stk) - 1), e)

\* the exception leaves best_branch.execute and Tree.execute catches it
Raise(log, e) ==
    /\ calls' = log \o Unwound(stack, e)
    /\ exc' = e
    /\ ret' = TopLevelError(e, query)
    /\ pc' = "done"
    /\ stack' = <<>>
    /\ relevant_leaves' = <<>>
    /\ cur' = NoCall
    /\ UNCHANGED execution_history

\* mutant: the new record replaces the history
AppendRecord_Only(history, record) == <<record>>

\* self._execution_history.append(execution_record)
AppendRecord(history, record) == Append(history, record)

\* the innermost Branch.execute returns r: to the fan-out loop of the frame
\* below, or to Tree.execute, which records and returns it
Return(log, r) ==
    /\ calls' = Append(log, BranchExecuteCall(Top.node, r))
    /\ relevant_leaves' = <<>>
    /\ cur' = NoCall
    /\ UNCHANGED exc
    /\ IF Len(stack) = 1
         THEN /\ execution_history' = AppendRecord(execution_history,
                    [query |-> query, branch |-> name[best_branch], result |-> r])
              /\ ret' = r
              /\ pc' = "done"
              /\ stack' = <<>>
         ELSE /\ stack' = [SubSeq(stack, 1, Len(stack) - 1)
                             EXCEPT ![Len(stack) - 1].results = Append(@, r)]
              /\ pc' = "fanout"
              /\ UNCHANGED <<execution_history, ret>>

\* Branch.execute, lines 65-72: fan out over the children, or none to execute
FanOutOrNone(log, b) ==
    IF children[b] # <<>>
    THEN /\ pc' = "fanout"
         /\ calls' = log
         /\ UNCHANGED <<stack, relevant_leaves, cur, exc, ret, execution_history>>
    ELSE Return(log, NoChildren(b))

\* Tree.execute up to its first await, on a history of fewer than max records
ExecuteUpTo(q, max) ==
    /\ Idle
    /\ Len(execution_history) < max
    /\ query' = q
    /\ calls' = <<>>
    /\ results' = <<>>
    /\ IF NoBranches
         THEN /\ best_branch' = NoNode
              /\ ret' = NoBranchFound(q)
              /\ pc' = "done"
              /\ stack' = <<>>
         ELSE IF SingleBranch
         THEN /\ best_branch' = branches[1]
              /\ stack' = <<Frame(branches[1])>>
              /\ pc' = "branch"
              /\ ret' = ret
         ELSE /\ pc' = "select"
              /\ UNCHANGED <<best_branch, stack, ret>>
    /\ last' = NoOp
    /\ UNCHANGED <<structure, store, config, suspended, execution_history, relevant_leaves, cur, exc>>

Execute(q) == ExecuteUpTo(q, MaxHistory)

\* Tree.execute once _find_best_branch has returned b
Selected(b) ==
    /\ best_branch' = b
    /\ IF b = NoNode
         THEN /\ ret' = NoBranchFound(query)
              /\ pc' = "done"
              /\ stack' = <<>>
         ELSE /\ stack' = <<Frame(b)>>
              /\ pc' = "branch"
              /\ ret' = ret

\* _find_best_branch on the hits the store returned: the best-scored name
\* looked up in tree.branches, or the first branch when no hit names a branch
Route(hits) ==
    IF ScoredNames(hits) # {} THEN get_branch(BestBranchName(hits)) ELSE FallbackBranch

\* mutant: a search consumes the index
StoreAfterSearch_Emptied == documents' = EmptyBag /\ UNCHANGED vectorstore

\* similarity_search and similarity_search_with_score only read the store
StoreAfterSearch == UNCHANGED store

\* _find_best_branch after similarity_search_with_score(query, k=5), where an
\* initialised store returns one of answers
SearchWithScoreOver(answers) ==
    /\ pc = "select"
    /\ IF ~shared_rag_db
         THEN \* None has no attribute similarity_search_with_score
              /\ Selected(FallbackBranch)
              /\ UNCHANGED <<results, calls>>
         ELSE /\ calls' = Append(calls, Call("similarity_search_with_score", NoNode, query,
                                            FALSE, <<>>, NoAnswer, NoValue))
              /\ IF ~vectorstore
                   THEN \* "Vector store not initialized"
                        /\ Selected(FallbackBranch)
                        /\ UNCHANGED results
                   ELSE \E hits \in answers :
                        /\ results' = hits
                        /\ Selected(Route(hits))
    /\ StoreAfterSearch
    /\ UNCHANGED <<structure, config, suspended, execution_history, query, relevant_leaves, cur, exc, last>>

SearchWithScore == SearchWithScoreOver(SearchWithScoreAnswers(TreeTopK))

\* Branch.execute up to its first await
BranchEnter ==
    /\ pc = "branch"
    /\ results' = <<>>
    /\ IF shared_rag_db /\ get_leaves(Top.node) # <<>>
         THEN /\ pc' = "find_leaves"
              /\ UNCHANGED <<stack, relevant_leaves, cur, exc, ret, execution_history, calls>>
         ELSE FanOutOrNone(calls, Top.node)
    /\ UNCHANGED <<structure, store, config, suspended, query, best_branch, last>>

\* Branch.execute once _find_relevant_leaves has returned the shortlist:
\* _execute_with_llm up to llm.ainvoke, or the fan-out
Shortlisted(log, b, shortlist) ==
    IF shortlist # <<>>
    THEN IF llm_cache
         THEN /\ relevant_leaves' = shortlist
              /\ pc' = "llm"
              /\ calls' = log
              /\ UNCHANGED <<stack, cur, exc, ret, execution_history>>
         ELSE Raise(log, NoProviders)
    ELSE FanOutOrNone(log, b)


\* mutant: the except clause returns every leaf
FirstK_All(s, k) == s

\* the slice s[:k]
FirstK(s, k) == SubSeq(s, 1, IF Len(s) < k THEN Len(s) ELSE k)



\* mutant: every leaf is shortlisted, whatever the store returned
Matching_All(leaves, names) == leaves

\* [leaf for leaf in leaves if leaf.name in relevant_leaf_names]
Matching(leaves, names) == SelectSeq(leaves, LAMBDA l : name[l] \in names)

\* _find_relevant_leaves after similarity_search(query, k=3, filter)
SimilaritySearch ==
    /\ pc = "find_leaves"
    /\ LET b == Top.node
           leaves == get_leaves(b)
           Log(answer, shortlist) ==
               Append(calls, Call("similarity_search", b, query, FALSE, shortlist, answer,
                                  NoValue))
       IN IF ~vectorstore
          THEN \* "Vector store not initialized": the except clause, leaves[:top_k]
               Shortlisted(Log(SearchRaised, FirstK(leaves, BranchTopK)), b,
                           FirstK(leaves, BranchTopK))
          ELSE \E docs \in SearchAnswers(BranchTopK, name[b]) :
                 LET relevant_leaf_names == {docs[i].leaf_name : i \in 1..Len(docs)}
                     shortlist == Matching(leaves, relevant_leaf_names)
                 IN Shortlisted(Log(SearchReturned(docs), shortlist), b, shortlist)
    /\ StoreAfterSearch
    /\ UNCHANGED <<structure, config, suspended, query, best_branch, results, last>>

\* _execute_with_llm after llm.ainvoke
LlmAnswer ==
    /\ pc = "llm"
    /\ \E answer \in LlmAnswers :
         LET log == Append(calls, Call("ainvoke", Top.node, query, FALSE,
                                       relevant_leaves, answer, NoValue))
             named == SelectSeq(relevant_leaves, LAMBDA l : name[l] = answer.tool)
         IN IF answer.kind = "object"
            THEN IF named # <<>>
                 THEN /\ cur' = [leaf |-> named[1],
                                 input |-> IF answer.input = Absent THEN query ELSE answer.input,
                                 mode |-> "selected"]
                      /\ pc' = "leaf"
                      /\ calls' = log
                      /\ UNCHANGED <<stack, relevant_leaves, exc, ret, execution_history>>
                 ELSE Return(log, ToolNotFound(answer.tool, Top.node))
            ELSE /\ cur' = [leaf |-> FallbackLeaf(relevant_leaves), input |-> query,
                            mode |-> "fallback"]
                 /\ pc' = "leaf"
                 /\ calls' = log
                 /\ UNCHANGED <<stack, relevant_leaves, exc, ret, execution_history>>
    /\ UNCHANGED <<structure, store, config, suspended, query, best_branch, results, last>>

\* Leaf.execute: what it returns, or raises, when the callable does out
LeafExecuteResult(l, out) ==
    IF MissingToolFunc(l) THEN Raised(NoToolFunction(l))
    ELSE IF out.raises THEN LeafFailure(l, out.value)
    ELSE LeafSuccess(l, out.value)

\* the callable is invoked only when there is one
ToolOutcomesOf(l) == IF MissingToolFunc(l) THEN {NoAnswer} ELSE ToolOutcomes

LeafExecute ==
    /\ pc = "leaf"
    /\ \E out \in ToolOutcomesOf(cur.leaf) :
         LET r == LeafExecuteResult(cur.leaf, out)
             log == Append(calls, Call("Leaf.execute", cur.leaf, cur.input,
                                       cur.mode = "fanout", <<>>, out, r))
         IN IF IsRaised(r)
            THEN IF cur.mode = "selected"
                 THEN \* the except clause of _execute_with_llm
                      /\ cur' = [leaf |-> FallbackLeaf(relevant_leaves), input |-> query,
                                 mode |-> "fallback"]
                      /\ calls' = log
                      /\ UNCHANGED <<pc, stack, relevant_leaves, exc, ret, execution_history>>
                 ELSE Raise(log, r.raised)
            ELSE IF cur.mode = "fanout"
                 THEN /\ stack' = [stack EXCEPT ![Len(stack)].results = Append(@, r)]
                      /\ pc' = "fanout"
                      /\ cur' = NoCall
                      /\ calls' = log
                      /\ UNCHANGED <<relevant_leaves, exc, ret, execution_history>>
                 ELSE Return(log, r)
    /\ UNCHANGED <<structure, store, config, suspended, query, best_branch, results, last>>

\* the loop of Branch.execute over self.children
FanOutNext ==
    /\ pc = "fanout"
    /\ LET b == Top.node
           i == Len(Top.results) + 1
       IN IF i > Len(children[b])
          THEN Return(calls, FanOut(b, Top.results))
          ELSE IF IsLeaf(children[b][i])
          THEN /\ cur' = [leaf |-> children[b][i], input |-> query, mode |-> "fanout"]
               /\ pc' = "leaf"
               /\ UNCHANGED <<stack, relevant_leaves, exc, ret, execution_history, calls>>
          ELSE /\ stack' = Append(stack, Frame(children[b][i]))
               /\ pc' = "branch"
               /\ UNCHANGED <<relevant_leaves, cur, exc, ret, execution_history, calls>>
    /\ UNCHANGED <<structure, store, config, suspended, query, best_branch, results, last>>

\* the caller has the result; the tree is ready for the next query
Returned ==
    /\ pc = "done"
    /\ pc' = "idle"
    /\ query' = None
    /\ best_branch' = NoNode
    /\ results' = <<>>
    /\ exc' = NoExc
    /\ ret' = NoRet
    /\ calls' = <<>>
    /\ UNCHANGED <<structure, store, config, suspended, execution_history, stack, relevant_leaves, cur,
                   last>>

Run ==
    \/ \E q \in Queries : Execute(q)
    \/ SearchWithScore
    \/ BranchEnter
    \/ SimilaritySearch
    \/ LlmAnswer
    \/ LeafExecute
    \/ FanOutNext
    \/ Returned

Next == Build \/ Run
Spec == Init /\ [][Next]_vars

\* ------------------------------------------------------------ a wide branch
\* Queries against a tree that was built before the first query: the branch
\* "crypto" with up to WideLeaves leaves, and the branch "social" either next
\* to it in tree.branches or nested in it between its first two leaves.  The
\* leaves were attached with add_leaf (nothing is indexed) or with spawn_leaf
\* (each is indexed once, in a store that initialised).
WideLeafIds == 101..(100 + WideLeaves)
WideNodes == {1, 2} \cup WideLeafIds
WideLeafSeq(n) == [j \in 1..n |-> 100 + j]
WideDocs(n) == SetToBag({Metadata(LeafName(100 + j), BranchName(1)) : j \in 1..n})

InitWide ==
    \E n \in 1..WideLeaves, nested \in BOOLEAN, spawned \in BOOLEAN :
      /\ name = [x \in WideNodes |->
                   IF x = 1 \/ (x = 2 /\ (nested \/ n > 1)) THEN BranchName(x)
                   ELSE IF x \in 101..(100 + n) THEN LeafName(x) ELSE NoName]
      /\ parent = [x \in WideNodes |->
                     IF x \in 101..(100 + n) \/ (x = 2 /\ nested) THEN 1 ELSE NoNode]
      /\ children = [x \in WideNodes |->
                       IF x # 1 THEN <<>>
                       ELSE IF nested THEN <<101, 2>> \o Tail(WideLeafSeq(n))
                       ELSE WideLeafSeq(n)]
      /\ tool_func = [l \in WideLeafIds |-> l \in 101..(100 + n)]
      /\ description = [b \in {1, 2} |-> IF Created(b) THEN BranchDescription(b) ELSE ""]
      /\ llm_provider = [b \in {1, 2} |-> IF Created(b) THEN BranchProvider(b) ELSE None]
      /\ system_prompt = [b \in {1, 2} |-> IF Created(b) THEN BranchPrompt(b) ELSE ""]
      /\ branches = IF nested \/ n = 1 THEN <<1>> ELSE <<1, 2>>
      /\ shared_rag_db \in BOOLEAN
      /\ vectorstore = (shared_rag_db /\ spawned)
      /\ documents = IF vectorstore THEN WideDocs(n) ELSE EmptyBag
    /\ llm_cache \in BOOLEAN
    /\ execution_history = <<>>
    /\ pc = "idle"
    /\ query = None
    /\ best_branch = NoNode
    /\ results = <<>>
    /\ stack = <<>>
    /\ relevant_leaves = <<>>
    /\ cur = NoCall
    /\ exc = NoExc
    /\ ret = NoRet
    /\ calls = <<>>
    /\ last = NoOp
    /\ suspended = NoLocals

SpecWide == InitWide /\ [][Run]_vars

\* ------------------------------------------------------------ nodes alone
\* add_child and remove_child called in any order on nodes that exist, any
\* node on any node
InitNodes ==
    /\ name = [x \in Nodes |-> IF IsBranch(x) THEN BranchName(x) ELSE LeafName(x)]
    /\ parent = [x \in Nodes |-> NoNode]
    /\ children = [x \in Nodes |-> <<>>]
    /\ tool_func = [l \in LeafIds |-> TRUE]
    /\ description = [b \in BranchIds |-> BranchDescription(b)]
    /\ llm_provider = [b \in BranchIds |-> BranchProvider(b)]
    /\ system_prompt = [b \in BranchIds |-> BranchPrompt(b)]
    /\ branches = <<>>
    /\ shared_rag_db = FALSE
    /\ llm_cache = FALSE
    /\ documents = EmptyBag
    /\ vectorstore = FALSE
    /\ execution_history = <<>>
    /\ pc = "idle"
    /\ query = None
    /\ best_branch = NoNode
    /\ results = <<>>
    /\ stack = <<>>
    /\ relevant_leaves = <<>>
    /\ cur = NoCall
    /\ exc = NoExc
    /\ ret = NoRet
    /\ calls = <<>>
    /\ last = NoOp
    /\ suspended = NoLocals

Holds(p, c) == \E i \in DOMAIN children[p] : children[p][i] = c

RECURSIVE NumLinks(_)
NumLinks(ns) ==
    IF ns = {} THEN 0
    ELSE LET n == CHOOSE x \in ns : TRUE IN Len(children[n]) + NumLinks(ns \ {n})

\* p.add_child(c)
add_child(p, c) ==
    /\ NumLinks(Nodes) < MaxLinks
    /\ AddChild(p, c)
    /\ last' = [call |-> "add_child", self |-> p, child |-> c]
    /\ UNCHANGED <<name, tool_func, attributes, branches, store, config, suspended, execution_history,
                   coroutine>>

\* list.remove: the first occurrence goes
RemoveFirst(seq, x) ==
    LET i == CHOOSE j \in DOMAIN seq : seq[j] = x /\ \A k \in 1..(j - 1) : seq[k] # x
    IN SubSeq(seq, 1, i - 1) \o SubSeq(seq, i + 1, Len(seq))

\* p.remove_child(c): nothing happens unless c is in p.children
remove_child(p, c) ==
    /\ IF Holds(p, c)
         THEN /\ children' = [children EXCEPT ![p] = RemoveFirst(@, c)]
              /\ parent' = [parent EXCEPT ![c] = NoNode]
         ELSE UNCHANGED <<parent, children>>
    /\ last' = [call |-> "remove_child", self |-> p, child |-> c, removed |-> Holds(p, c)]
    /\ UNCHANGED <<name, tool_func, attributes, branches, store, config, suspended, execution_history,
                   coroutine>>

NextNodes ==
    \/ \E p \in Nodes, c \in Nodes : add_child(p, c)
    \/ \E p \in Nodes, c \in Nodes : remove_child(p, c)

SpecNodes == InitNodes /\ [][NextNodes]_vars

\* -------------------------------------------------------- reading the history
\* no query in flight: the locals of Tree.execute do not exist
NoQuery ==
    /\ pc = "idle"
    /\ query = None
    /\ best_branch = NoNode
    /\ results = <<>>
    /\ stack = <<>>
    /\ relevant_leaves = <<>>
    /\ cur = NoCall
    /\ exc = NoExc
    /\ ret = NoRet
    /\ calls = <<>>

\* the records earlier queries left: each by one of two branches
HistoryRecords ==
    {[query |-> "q", branch |-> BranchName(b), result |-> [success |-> b = 1]] : b \in {1, 2}}

RECURSIVE Histories(_)
Histories(n) ==
    IF n = 0 THEN {<<>>}
    ELSE Histories(n - 1) \cup
         {Append(h, r) : h \in {x \in Histories(n - 1) : Len(x) = n - 1}, r \in HistoryRecords}

InitHistory ==
    /\ name = [x \in Nodes |-> IF x \in {1, 2} THEN BranchName(x) ELSE NoName]
    /\ parent = [x \in Nodes |-> NoNode]
    /\ children = [x \in Nodes |-> <<>>]
    /\ tool_func = [l \in LeafIds |-> FALSE]
    /\ description = [b \in BranchIds |-> ""]
    /\ llm_provider = [b \in BranchIds |-> None]
    /\ system_prompt = [b \in BranchIds |-> ""]
    /\ branches = <<1, 2>>
    /\ shared_rag_db = FALSE
    /\ llm_cache = FALSE
    /\ documents = EmptyBag
    /\ vectorstore = FALSE
    /\ execution_history \in Histories(MaxRecords)
    /\ NoQuery
    /\ last = NoOp
    /\ suspended = NoLocals

\* the slice s[start:] of a list: a negative start counts from the end, and
\* either is clamped to the list
SliceFrom(s, start) ==
    LET n == Len(s)
        first == IF start < 0 THEN (IF n + start < 0 THEN 0 ELSE n + start)
                 ELSE (IF start > n THEN n ELSE start)
    IN SubSeq(s, first + 1, n)

\* tree.get_execution_history(limit): self._execution_history[-limit:]
get_execution_history(limit) ==
    /\ Idle
    /\ last' = [call |-> "get_execution_history", limit |-> limit,
                returned |-> SliceFrom(execution_history, 0 - limit)]
    /\ UNCHANGED <<structure, store, config, suspended, execution_history, coroutine>>

NextHistory == \E limit \in 0..MaxLimit : get_execution_history(limit)

SpecHistory == InitHistory /\ [][NextHistory]_vars

\* ------------------------------------------------------- indexing once more
\* Queries and index_tree() calls on a tree of two branches, each with one
\* leaf: "price" was spawned (the store is initialised and holds its entry),
\* "post" was spawned too or only attached.  The store answers a query with
\* the best-scored entries under some scoring of the leaves.
InitIndex ==
    /\ name = [x \in Nodes |-> IF x \in {1, 2} THEN BranchName(x)
                               ELSE IF x \in {101, 102} THEN LeafName(x) ELSE NoName]
    /\ parent = [x \in Nodes |-> IF x \in {101, 102} THEN x - 100 ELSE NoNode]
    /\ children = [x \in Nodes |-> IF x \in {1, 2} THEN <<x + 100>> ELSE <<>>]
    /\ tool_func = [l \in LeafIds |-> l \in {101, 102}]
    /\ description = [b \in BranchIds |-> IF b \in {1, 2} THEN BranchDescription(b) ELSE ""]
    /\ llm_provider = [b \in BranchIds |-> IF b \in {1, 2} THEN BranchProvider(b) ELSE None]
    /\ system_prompt = [b \in BranchIds |-> IF b \in {1, 2} THEN BranchPrompt(b) ELSE ""]
    /\ branches = <<1, 2>>
    /\ shared_rag_db = TRUE
    /\ vectorstore = TRUE
    /\ \E spawned \in BOOLEAN :
         documents = SetToBag({Metadata(LeafName(101), BranchName(1))})
                     (+) (IF spawned THEN SetToBag({Metadata(LeafName(102), BranchName(2))})
                          ELSE EmptyBag)
    /\ llm_cache \in BOOLEAN
    /\ execution_history = <<>>
    /\ pc = "idle"
    /\ query = None
    /\ best_branch = NoNode
    /\ results = <<>>
    /\ stack = <<>>
    /\ relevant_leaves = <<>>
    /\ cur = NoCall
    /\ exc = NoExc
    /\ ret = NoRet
    /\ calls = <<>>
    /\ last = NoOp
    /\ suspended = NoLocals

index_tree_again == IndexTree(IndexDocs)

SearchTopK ==
    SearchWithScoreOver(UNION {TopKAnswers(documents, s, TreeTopK) : s \in ScoreAssignments})

NextIndex ==
    \/ index_tree_again
    \/ clear_history
    \/ \E q \in Queries : ExecuteUpTo(q, IndexHistory)
    \/ SearchTopK
    \/ BranchEnter
    \/ SimilaritySearch
    \/ LlmAnswer
    \/ LeafExecute
    \/ FanOutNext
    \/ Returned

SpecIndex == InitIndex /\ [][NextIndex]_vars

\* ------------------------------------------------------ two queries at once
\* Two Tree.execute coroutines on the tree of InitIndex.  The event loop runs
\* one of them at a time; at an await it may go on with the other one, whose
\* locals are in suspended.  Each coroutine runs one query.
Locals ==
    [pc |-> pc, query |-> query, best_branch |-> best_branch, results |-> results,
     stack |-> stack, relevant_leaves |-> relevant_leaves, cur |-> cur, exc |-> exc,
     ret |-> ret, calls |-> calls]

Resume(c) ==
    /\ pc' = c.pc
    /\ query' = c.query
    /\ best_branch' = c.best_branch
    /\ results' = c.results
    /\ stack' = c.stack
    /\ relevant_leaves' = c.relevant_leaves
    /\ cur' = c.cur
    /\ exc' = c.exc
    /\ ret' = c.ret
    /\ calls' = c.calls

\* the awaits of Tree.execute that give the loop to another task: the two
\* store searches, llm.ainvoke and the leaf callable; a coroutine that has
\* not started or has returned does not hold the loop either
AtAwait == pc \in {"idle", "select", "find_leaves", "llm", "leaf", "done"}

Switch ==
    /\ AtAwait
    /\ pc # "idle" \/ suspended.pc # "idle"
    /\ suspended' = Locals
    /\ Resume(suspended)
    /\ UNCHANGED <<structure, store, config, execution_history, last>>

TwoQueries == {"q", "r"}

NextTwo ==
    \/ \E q \in TwoQueries : ExecuteUpTo(q, IndexHistory)
    \/ SearchTopK
    \/ BranchEnter
    \/ SimilaritySearch
    \/ LlmAnswer
    \/ LeafExecute
    \/ FanOutNext
    \/ Switch

SpecTwo == InitIndex /\ [][NextTwo]_vars

\* ----------------------------------------------- a callable that never returns
\* mutant: the callable is called on the event loop
to_thread_OnLoop(l) == FALSE

\* Leaf.execute hands a synchronous callable (the callables here are: is_async
\* is False) to asyncio.to_thread: it runs in a worker thread, off the loop
to_thread(l) == TRUE

\* the callable of the leaf the query selected is running and does not return:
\* the coroutine stays at its await for ever, the loop is free for a new task
Stall ==
    /\ pc = "leaf"
    /\ ~MissingToolFunc(cur.leaf)
    /\ suspended.pc = "idle"
    /\ suspended' = Locals
    /\ Resume(NoLocals)
    /\ UNCHANGED <<structure, store, config, execution_history, last>>

\* the event loop runs a step of a task unless a callable occupies it
Loop ==
    /\ suspended.pc = "leaf" => to_thread(suspended.cur.leaf)
    /\ \/ \E q \in Queries : ExecuteUpTo(q, IndexHistory)
       \/ SearchTopK
       \/ BranchEnter
       \/ SimilaritySearch
       \/ LlmAnswer
       \/ LeafExecute
       \/ FanOutNext
       \/ Returned

NextStall == Stall \/ Loop

\* the loop keeps running the tasks that are ready, and the store, the model
\* and the callable of the other query do answer
SpecStall == InitIndex /\ [][NextStall]_vars /\ WF_vars(Loop)

\* =================================================================== claims
IsLeafExecute(i) == calls[i].op = "Leaf.execute"
IsBranchExecute(i) == calls[i].op = "Branch.execute"

\* the leaves below branch b, at any depth
RECURSIVE LeavesUnder(_)
LeavesUnder(b) ==
    {children[b][i] : i \in {j \in 1..Len(children[b]) : IsLeaf(children[b][j])}}
    \cup UNION {LeavesUnder(children[b][i]) :
                  i \in {j \in 1..Len(children[b]) : IsBranch(children[b][j])}}

\* C1: Tree.execute never raises to its caller: what it returns is a record
\* with a success flag, and when an exception escaped best_branch.execute the
\* record is {success: false, error: the exception's text, query}.
C1_ExecuteNeverRaises ==
    pc = "done" =>
        /\ ~IsRaised(ret)
        /\ "success" \in DOMAIN ret
        /\ ret.success \in BOOLEAN
        /\ exc # NoExc => ret = [success |-> FALSE, error |-> exc, query |-> query]

C1_Witness == pc = "done" /\ exc # NoExc /\ Len(branches) >= 2

\* C2: with exactly one branch, Tree.execute delegates to it, whatever the
\* store is in, and makes no similarity_search_with_score call.
C2_SingleBranchDelegates ==
    (pc # "idle" /\ Len(branches) = 1) =>
        /\ pc # "select"
        /\ best_branch = branches[1]
        /\ \A i \in DOMAIN calls : calls[i].op # "similarity_search_with_score"
        /\ stack # <<>> => stack[1].node = branches[1]
        /\ pc = "done" =>
             /\ IsBranchExecute(Len(calls))
             /\ calls[Len(calls)].node = branches[1]
             /\ calls[Len(calls)].returned = (IF exc = NoExc THEN ret ELSE Raised(exc))

C2_Witness ==
    /\ pc = "done"
    /\ Len(branches) = 1
    /\ shared_rag_db
    /\ ~vectorstore
    /\ get_leaves(branches[1]) # <<>>

\* C3: with no branch, Tree.execute returns {success: false, error: "No
\* suitable branch found", query} and calls neither the store nor the LLM.
C3_NoBranchNoCalls ==
    (pc # "idle" /\ branches = <<>>) =>
        /\ pc = "done"
        /\ ret = [success |-> FALSE, error |-> "No suitable branch found", query |-> query]
        /\ best_branch = NoNode
        /\ calls = <<>>

C3_Witness == pc = "done" /\ branches = <<>> /\ vectorstore /\ NumDocs > 0

\* C4 (as claimed): with two or more branches and scored hits that carry a
\* branch name, Tree.execute delegates to a branch whose name has the largest
\* sum of scores.
C4_LargestSumDelegated ==
    (Len(branches) >= 2 /\ ScoredNames(results) # {}) =>
        /\ best_branch # NoNode
        /\ stack # <<>>
        /\ stack[1].node = best_branch
        /\ \A nm \in ScoredNames(results) :
             BranchScore(results, name[best_branch]) >= BranchScore(results, nm)

\* C5: with two or more branches, when the store call raises or no returned
\* hit carries a branch name, Tree.execute delegates to the first branch; it
\* ends without a branch only on hits that carry a branch name.
C5_FallbackFirstBranch ==
    /\ (Len(branches) >= 2 /\ pc = "branch" /\ Len(stack) = 1 /\ ScoredNames(results) = {}) =>
          /\ best_branch = branches[1]
          /\ stack[1].node = branches[1]
    /\ (Len(branches) >= 2 /\ pc = "done" /\ best_branch = NoNode) =>
          ScoredNames(results) # {}

C5_Witness ==
    /\ Len(branches) >= 2
    /\ pc = "branch"
    /\ Len(stack) = 1
    /\ results # <<>>
    /\ ScoredNames(results) = {}

C5_WitnessRaise ==
    /\ Len(branches) >= 2
    /\ pc = "branch"
    /\ Len(stack) = 1
    /\ shared_rag_db
    /\ ~vectorstore
    /\ calls # <<>>

\* C6: Leaf.execute on a leaf with a callable never raises: a callable that
\* raises e gives {success: false, error: e, leaf, path}, one that returns v
\* gives {success: true, result: v, leaf, path}.
C6_LeafConvertsExceptions ==
    \A i \in DOMAIN calls :
        (IsLeafExecute(i) /\ tool_func[calls[i].node]) =>
            LET c == calls[i] IN
            /\ ~IsRaised(c.returned)
            /\ c.answer \in ToolOutcomes
            /\ c.answer.raises =>
                 c.returned = [success |-> FALSE, error |-> c.answer.value,
                               leaf |-> name[c.node], path |-> Join(get_path(c.node))]
            /\ ~c.answer.raises =>
                 c.returned = [success |-> TRUE, result |-> c.answer.value,
                               leaf |-> name[c.node], path |-> Join(get_path(c.node))]

C6_Witness ==
    \E i \in DOMAIN calls : IsLeafExecute(i) /\ tool_func[calls[i].node] /\ calls[i].answer.raises

\* C7 (as claimed): no Leaf without a callable is ever attached to a branch.
C7_NoCallablelessLeafAttached ==
    \A l \in LeafIds : (Created(l) /\ parent[l] # NoNode) => tool_func[l]

\* C7 (amended): a Leaf without a callable is built and attached like any
\* other; Leaf.execute on it raises "has no tool function defined" and
\* invokes nothing.
C7_MissingCallableRaisesAtExecute ==
    \A i \in DOMAIN calls :
        (IsLeafExecute(i) /\ ~tool_func[calls[i].node]) =>
            /\ parent[calls[i].node] # NoNode
            /\ calls[i].answer = NoAnswer
            /\ calls[i].returned =
                 Raised("Leaf '" \o name[calls[i].node] \o "' has no tool function defined")

C7_Witness == \E i \in DOMAIN calls : IsLeafExecute(i) /\ ~tool_func[calls[i].node]

\* the LLM answered an object whose "tool" is no shortlisted leaf's name
NotShortlistedDecision(i) ==
    /\ calls[i].op = "ainvoke"
    /\ calls[i].answer.kind = "object"
    /\ \A j \in DOMAIN calls[i].shortlist : name[calls[i].shortlist[j]] # calls[i].answer.tool

Unparsed(i) ==
    /\ calls[i].op = "ainvoke"
    /\ calls[i].answer.kind \in {"raise", "text", "json"}

C10_BranchNeverRaises ==
    \A i \in DOMAIN calls :
        (IsBranchExecute(i) /\ \A l \in LeavesUnder(calls[i].node) : tool_func[l]) =>
            ~IsRaised(calls[i].returned)

\* rag_db.similarity_search raised in the i-th call of the trace
RetrievalRaised(i) == calls[i].op = "similarity_search" /\ calls[i].answer.kind = "raise"

ExecutionsOf(c) ==
    {k \in DOMAIN calls : calls[k].node = c /\ (IsLeafExecute(k) \/ IsBranchExecute(k))}

\* C12 (as claimed): without a retrieval handle, Branch.execute on a branch
\* with children executes every child once, in child order, and returns
\* {success: true, branch, results} with one result per child in that order,
\* whatever the children did.
C12_FanOutEmbedsEveryChild ==
    \A i \in DOMAIN calls :
        (IsBranchExecute(i) /\ ~shared_rag_db /\ children[calls[i].node] # <<>>) =>
            LET b == calls[i].node
                r == calls[i].returned
                Exec(j) == CHOOSE k \in ExecutionsOf(children[b][j]) : TRUE
            IN /\ ~IsRaised(r)
               /\ DOMAIN r = {"success", "branch", "results"}
               /\ r.success = TRUE
               /\ r.branch = name[b]
               /\ Len(r.results) = Len(children[b])
               /\ \A j \in 1..Len(children[b]) :
                    /\ Cardinality(ExecutionsOf(children[b][j])) = 1
                    /\ Exec(j) < i
                    /\ j > 1 => Exec(j - 1) < Exec(j)
                    /\ r.results[j] = calls[Exec(j)].returned

\* C13: Branch.execute on a branch without children, with or without the
\* handles, returns {success: false, error: "No children to execute", branch}
\* and calls nothing: no search, no LLM, no child.
C13_NoChildrenRecord ==
    \A i \in DOMAIN calls :
        (IsBranchExecute(i) /\ children[calls[i].node] = <<>>) =>
            /\ calls[i].returned =
                 [success |-> FALSE, error |-> "No children to execute",
                  branch |-> name[calls[i].node]]
            /\ \A k \in DOMAIN calls : calls[k].node = calls[i].node => k = i

C13_Witness ==
    \E i \in DOMAIN calls :
        /\ IsBranchExecute(i)
        /\ children[calls[i].node] = <<>>
        /\ shared_rag_db
        /\ vectorstore
        /\ llm_cache

\* C14 (as claimed): a Tree.execute that delegated to a branch has appended
\* {query, branch, result} to the history when it returns, with the name of
\* that branch and the value it returns.
C14_DelegatedIsRecorded ==
    (pc = "done" /\ best_branch # NoNode) =>
        /\ execution_history # <<>>
        /\ execution_history[Len(execution_history)] =
             [query |-> query, branch |-> name[best_branch], result |-> ret]

\* C15 (as claimed): every leaf that Tree.execute executes has an entry in the
\* retrieval store.
C15_OnlyIndexedLeavesExecuted ==
    \A i \in DOMAIN calls :
        IsLeafExecute(i) =>
            \E d \in BagToSet(documents) : d.leaf_name = name[calls[i].node]

\* the store holds an entry with the name of leaf l
Indexed(l) == \E d \in BagToSet(documents) : d.leaf_name = name[l]

\* C15 (amended): a leaf without an entry in the store is executed by
\* Tree.execute only in a fan-out or from the shortlist of a retrieval query
\* that raised; a retrieval query that returns shortlists only leaves that
\* have an entry under the branch's name.
C15_UnindexedOnlyByFanOutOrFailover ==
    /\ \A i \in DOMAIN calls :
          (IsLeafExecute(i) /\ ~Indexed(calls[i].node)) =>
              \/ calls[i].handles
              \/ \E k \in 1..(i - 1) :
                    /\ RetrievalRaised(k)
                    /\ calls[k].node = parent[calls[i].node]
                    /\ \E j \in DOMAIN calls[k].shortlist :
                          calls[k].shortlist[j] = calls[i].node
    /\ \A k \in DOMAIN calls :
          (calls[k].op = "similarity_search" /\ calls[k].answer.kind = "hits") =>
              \A j \in DOMAIN calls[k].shortlist :
                  Metadata(name[calls[k].shortlist[j]], name[calls[k].node])
                      \in BagToSet(documents)

C15_Witness ==
    \E i \in DOMAIN calls :
        /\ IsLeafExecute(i)
        /\ ~Indexed(calls[i].node)
        /\ ~calls[i].handles
        /\ Len(branches) >= 2

\* the branches _find_best_branch can return on an index holding bag, when
\* the store scores the leaves by s
Routes(bag, s) == {Route(hits) : hits \in TopKAnswers(bag, s, TreeTopK)}

\* C17 (as claimed): a second index_tree() right after a first one changes no
\* routing: under every scoring of the leaves, the branches a query can be
\* routed to are the same before and after it.
C17_SecondIndexTreeKeepsRoute ==
    [][(last = Completed("index_tree") /\ last' = Completed("index_tree")
          /\ Len(branches) >= 2) =>
         \A s \in ScoreAssignments : Routes(documents', s) = Routes(documents, s)]_vars

\* C16 (as claimed): index_tree() completes, and afterwards the store holds,
\* for every leaf below a top-level branch, an entry with the leaf's name and
\* the name of the branch that owns it.
C16_IndexTreeIndexesEveryLeaf ==
    last.call = "index_tree" =>
        /\ last.outcome = "completed"
        /\ \A i \in DOMAIN branches : \A l \in LeavesUnder(branches[i]) :
             Metadata(name[l], name[parent[l]]) \in BagToSet(documents)

\* C18 (as claimed): after any add_child and remove_child calls, every node
\* in some node's children list has that node as its parent, and a node that
\* remove_child removed has no parent and is no longer in the children list.
C18_ChildrenPointToHolder ==
    /\ \A p \in Nodes, c \in Nodes : Holds(p, c) => parent[c] = p
    /\ (last.call = "remove_child" /\ last.removed) =>
          /\ parent[last.child] = NoNode
          /\ ~Holds(last.self, last.child)

\* the k-th node up the parent references from n
RECURSIVE Ancestor(_, _)
Ancestor(n, k) == IF k = 0 THEN n ELSE parent[Ancestor(n, k - 1)]

\* C19: in a tree built by add_child, get_path() is the names on the parent
\* chain, root first and the node's own name last, get_depth() is the number
\* of parent hops to the root, and len(get_path()) = get_depth() + 1.
C19_PathAndDepth ==
    \A n \in Nodes :
        Created(n) =>
            LET path == get_path(n)
                depth == get_depth(n)
            IN /\ Len(path) = depth + 1
               /\ \A k \in 0..depth :
                    /\ Ancestor(n, k) # NoNode
                    /\ path[Len(path) - k] = name[Ancestor(n, k)]
               /\ parent[Ancestor(n, depth)] = NoNode
               /\ parent[n] = NoNode => (depth = 0 /\ path = <<name[n]>>)

C19_Witness ==
    \E n \in LeafIds :
        /\ Created(n)
        /\ get_depth(n) = 3
        /\ get_path(n) = <<"crypto", "social", "", name[n]>>

\* C20 (as claimed): from_dict(tree.to_dict(), llm_configs) gives a tree with
\* the same name and the same top-level branches in the same order, each with
\* the same name, description, llm_provider and system_prompt.
C20_RoundTrip ==
    last.call \in {"to_dict", "from_dict"} =>
        /\ last.outcome = "completed"
        /\ last.tree.name = TreeName
        /\ Len(last.tree.branches) = Len(branches)
        /\ \A i \in DOMAIN branches :
             LET b == branches[i]
                 copy == last.tree.branches[i]
             IN /\ copy.name = name[b]
                /\ copy.description = description[b]
                /\ copy.llm_provider = llm_provider[b]
                /\ copy.system_prompt = system_prompt[b]

\* C22 (as claimed): get_execution_history(limit) returns the most recent
\* min(limit, n) records of an n-record history, in append order, for every
\* limit >= 0.
C22_MostRecentRecords ==
    last.call = "get_execution_history" =>
        LET n == Len(execution_history)
            m == IF last.limit < n THEN last.limit ELSE n
        IN /\ Len(last.returned) = m
           /\ \A i \in 1..m : last.returned[i] = execution_history[n - m + i]

\* C23 (as claimed): the shortlist keeps the order in which the store returned
\* its hits, so its first leaf, the one the fallback executes, is the
\* top-ranked hit of the branch and not the earliest-added matching leaf.
C23_ShortlistInHitOrder ==
    \A i \in DOMAIN calls :
        (calls[i].op = "similarity_search" /\ calls[i].answer.kind = "hits") =>
            LET docs == calls[i].answer.docs
                shortlist == calls[i].shortlist
                Rank(l) == CHOOSE k \in DOMAIN docs :
                              /\ docs[k].leaf_name = name[l]
                              /\ \A j \in 1..(k - 1) : docs[j].leaf_name # name[l]
            IN \A a \in DOMAIN shortlist, b \in DOMAIN shortlist :
                  a < b => Rank(shortlist[a]) < Rank(shortlist[b])

\* C24 (as claimed): when the LLM's response parses to a decision naming a
\* shortlisted leaf L, Branch.execute executes L exactly once, with the
\* decision's input (the query when the decision carries none), and executes
\* no other leaf of the branch.
C24_DecisionExecutesNamedLeafOnce ==
    \A i \in DOMAIN calls, k \in DOMAIN calls :
        LET decision == calls[i].answer
            named == SelectSeq(calls[i].shortlist, LAMBDA l : name[l] = decision.tool)
        IN (/\ calls[i].op = "ainvoke"
            /\ decision.kind = "object"
            /\ named # <<>>
            /\ i < k
            /\ IsBranchExecute(k)
            /\ \A j \in (i + 1)..(k - 1) : ~IsBranchExecute(j)) =>
               /\ k = i + 2
               /\ IsLeafExecute(i + 1)
               /\ calls[i + 1].node = named[1]
               /\ calls[i + 1].input =
                    (IF decision.input = Absent THEN calls[i].input ELSE decision.input)

\* C25: Tree.execute changes no tree state other than the execution history:
\* from its first step to its return, on every path, tree.branches, every
\* node's children and parent, and the contents of the index stay as they are.
C25_ExecuteKeepsTree ==
    [][(pc # "idle" \/ pc' # "idle") =>
          /\ branches' = branches
          /\ children' = children
          /\ parent' = parent
          /\ documents' = documents]_vars

C25_Witness ==
    /\ pc = "done"
    /\ Len(execution_history) = 1
    /\ documents # EmptyBag
    /\ \E i \in DOMAIN calls : calls[i].op = "similarity_search" /\ calls[i].answer.kind = "hits"
    /\ \E i \in DOMAIN calls : IsLeafExecute(i)

\* C27: the execution history only grows by appending: every step of a
\* Tree.execute call leaves it as it is or adds one record at its end, and
\* between calls only clear_history() changes it.
C27_HistoryAppendOnly ==
    [][IF pc = "idle" /\ pc' = "idle"
       THEN execution_history' = execution_history \/ execution_history' = <<>>
       ELSE /\ Len(execution_history') \in {Len(execution_history), Len(execution_history) + 1}
            /\ SubSeq(execution_history', 1, Len(execution_history)) = execution_history]_vars

C27_Witness ==
    /\ pc = "done"
    /\ Len(execution_history) = 2
    /\ execution_history[1] # execution_history[2]
    /\ execution_history[2].result = ret

\* C28 (as claimed): Tree.execute returns the "No suitable branch found"
\* failure only when the tree has no branch; with at least one branch, after
\* any add_branch, remove_branch, spawn_leaf and index_tree calls, the query is
\* delegated to a branch of tree.branches.
C28_NoBranchFoundOnlyWhenEmpty ==
    pc = "done" =>
        IF branches = <<>> THEN ret = NoBranchFound(query)
        ELSE /\ ret # NoBranchFound(query)
             /\ \E i \in DOMAIN branches : branches[i] = best_branch
             /\ \E i \in DOMAIN calls : IsBranchExecute(i) /\ calls[i].node = best_branch

\* C29 (as claimed): a leaf callable invoked in the course of Tree.execute
\* receives its input and the caller's options only: the rag_db and llm_router
\* handles are never passed to it, on the LLM-selection path and on the
\* fan-out path alike.
C29_HandlesNeverReachCallable ==
    \A i \in DOMAIN calls :
        (IsLeafExecute(i) /\ ~MissingToolFunc(calls[i].node)) => ~calls[i].handles

\* C30 (as claimed): after any add_child and remove_child calls the parent
\* chain of every node is acyclic: the loops of get_path() and get_depth()
\* reach a node without parent, within as many hops as there are nodes.
C30_ParentChainAcyclic ==
    LET RECURSIVE Up(_, _)
        Up(n, k) == IF k = 0 \/ n = NoNode THEN n ELSE Up(parent[n], k - 1)
    IN \A n \in Nodes : Up(n, Cardinality(Nodes)) = NoNode

\* C21: while the synchronous callable of one query is running and never
\* returns, a second Tree.execute on the same tree goes through branch
\* selection, leaf selection and leaf execution and returns.
C21_SecondQueryReturns ==
    (suspended.pc = "leaf" /\ pc = "idle" /\ execution_history = <<>>)
        ~> (suspended.pc = "leaf" /\ pc = "done")

C21_Witness ==
    /\ suspended.pc = "leaf"
    /\ pc = "done"
    /\ \E i \in DOMAIN calls : calls[i].op = "similarity_search_with_score"
    /\ \E i \in DOMAIN calls : calls[i].op = "ainvoke"
    /\ \E i \in DOMAIN calls : IsLeafExecute(i) /\ calls[i].returned = ret
    /\ ret.success

\* C26 (as claimed): two Tree.execute calls interleaved at their awaits, with
\* no structural mutation: each returns the result of its own delegation, as
\* when run alone (every call of its trace carries its own query, and what it
\* returns is what its own best_branch.execute returned), and the history ends
\* with exactly one record per delegated query, each with that query, the name
\* of its branch and its result.
C26_InterleavedQueriesKeepApart ==
    LET Own(c) ==
            /\ \A i \in DOMAIN c.calls :
                  c.calls[i].op # "Leaf.execute" => c.calls[i].input = c.query
            /\ (c.exc = NoExc /\ c.best_branch # NoNode) =>
                  /\ c.calls # <<>>
                  /\ c.calls[Len(c.calls)] =
                       Call("Branch.execute", c.best_branch, c.query, FALSE, <<>>, NoAnswer, c.ret)
        RecordOf(c) == [query |-> c.query, branch |-> name[c.best_branch], result |-> c.ret]
        delegated == SelectSeq(<<Locals, suspended>>, LAMBDA c : c.best_branch # NoNode)
    IN (pc = "done" /\ suspended.pc = "done") =>
          /\ Own(Locals)
          /\ Own(suspended)
          /\ Len(execution_history) = Len(delegated)
          /\ \E first \in 1..2 :
                \A i \in DOMAIN delegated :
                    execution_history[IF first = 1 THEN i ELSE Len(delegated) + 1 - i]
                        = RecordOf(delegated[i])
====
